---- MODULE Spec2Model ----
(***************************************************************************)
(* A model of sysinfo-web (src/src/web.rs, sysinfo_ext.rs,                 *)
(* sysinfo_serde.rs): the background refresh thread of start_web_server,   *)
(* the shared DataHandler (system, last_connection, json_output), the      *)
(* three warp handler closures, the route table and the gzip macros.       *)
(*                                                                         *)
(* Time is in milliseconds.  The wall clock `now` only takes values of the *)
(* finite set Instants, chosen around the multiples of REFRESH_DELAY so    *)
(* that elapsed times just below, at and above the threshold all occur.    *)
(*                                                                         *)
(* Five specifications:                                                    *)
(*   Spec           the program as built: the refresh thread, the clock    *)
(*                  and HTTP requests dispatched through `routes`          *)
(*                  (web.rs:226, where only the favicon route is mounted). *)
(*   SpecHandlers   the refresh thread, the clock and two worker threads   *)
(*                  running the update closure of web.rs:218-221           *)
(*                  directly, step by step, locks included.                *)
(*   SpecClosures   the refresh thread, the clock and one worker thread    *)
(*                  running the three closures of web.rs:215-224 and       *)
(*                  returning their responses.                             *)
(*   SpecNegotiate  return_gzip_or_not! applied to bounded inputs.         *)
(*   SpecBandwith   get_bandwith_usage applied to bounded readings.        *)
(***************************************************************************)
EXTENDS Integers, Sequences, FiniteSets, TLC

VARIABLES
    gzip,             \* cargo feature "gzip" of this build
    now,              \* SystemTime::now(), in ms since process start
    system,           \* DataHandler.system: [ver, disk_utf8]; ver counts refresh_all() calls
    last_connection,  \* DataHandler.last_connection
    last_poisoned,    \* the last_connection Mutex is poisoned
    last_holder,      \* the thread that holds the last_connection Mutex, or "none"
    json_output,      \* DataHandler.json_output: the String, as the sequence of texts appended to it
    json_writer,      \* the refresh thread holds json_output's write lock
    json_readers,     \* the workers that hold json_output's read lock
    json_poisoned,    \* the json_output RwLock is poisoned
    sched_pc,         \* position of the refresh thread
    sched_t,          \* its clock reading (in can_update_system_info) or wake-up time (in sleep)
    sleeping,         \* its local `sleeping`
    sysinfo,          \* its local `sysinfo` (SysinfoExt)
    iter,             \* history: what the current iteration of the loop has done
    published,        \* history: the text of the last completed write of json_output
    hpc,              \* per worker: position in the handler closure it runs
    ht,               \* per worker: its SystemTime::now() reading
    hbody,            \* per worker: the clone of json_output it read
    req,              \* the request being answered
    resp,             \* the response to it
    overflow_checks,  \* this build panics on integer overflow (debug) or wraps (release)
    net,              \* what one call of get_bandwith_usage reads from /sys/class/net
    bandwith          \* what that call returned

vars == <<gzip, now, system, last_connection, last_poisoned, last_holder,
          json_output, json_writer, json_readers, json_poisoned, sched_pc,
          sched_t, sleeping, sysinfo, iter, published, hpc, ht, hbody, req, resp,
          overflow_checks, net, bandwith>>

sharedVars == <<system, last_connection, last_poisoned, last_holder, json_output,
                json_writer, json_readers, json_poisoned>>
schedVars == <<sched_pc, sched_t, sleeping, sysinfo, iter, published>>
handlerVars == <<hpc, ht, hbody>>
httpVars == <<req, resp>>
netVars == <<overflow_checks, net, bandwith>>

----------------------------------------------------------------------------
(* Constants of the program and bounds of the model *)

REFRESH_DELAY == 600
ActiveSleepSecs == 5
IdleSleepMillis == 500

MaxPeriods == 1
MaxLen == 3

MillisOfSecs(s) == s * 1000
as_secs(d) == d \div 1000

Offsets == {0, MillisOfSecs(REFRESH_DELAY) - 1}
Instants == {k * MillisOfSecs(REFRESH_DELAY) + o : k \in 0..MaxPeriods, o \in Offsets}

Workers == {"w1", "w2"}

\* owners of the last_connection Mutex
NoThread == "none"
RefreshThread == "sched"

----------------------------------------------------------------------------
(* Results, as Rust's Result<T, E> *)

Ok(v) == [ok |-> TRUE, val |-> v]
Err(v) == [ok |-> FALSE, val |-> v]
unwrap_or(r, d) == IF r.ok THEN r.val ELSE d

----------------------------------------------------------------------------
(* JSON texts.  A String is the sequence of the texts written to it:       *)
(* clear() empties it and write_str() appends.                             *)

EmptyArrayText == [kind |-> "array", items |-> <<>>]
ObjectText(s) == [kind |-> "object",
                  items |-> <<s.ver, s.hostname, s.uptime, s.bandwith>>]

InitialJson == <<EmptyArrayText>>
clear(s) == <<>>
write_str(s, text) == Append(s, text)

IsCompleteText(s) == Len(s) = 1

----------------------------------------------------------------------------
(* SysinfoExt::new and its serialization *)

\* what get_hostname(), get_uptime() and get_bandwith_usage() return in one
\* call of SysinfoExt::new: all succeed, exactly one fails, or all fail
SampleResults ==
    {<<Ok("host"), Ok("up 1 day"), Ok(<<2, 4>>)>>,
     <<Err("io"), Ok("up 1 day"), Ok(<<2, 4>>)>>,
     <<Ok("host"), Err("io"), Ok(<<2, 4>>)>>,
     <<Ok("host"), Ok("up 1 day"), Err(<<0, 0>>)>>,
     <<Err("io"), Err("io"), Err(<<0, 0>>)>>}

\* the case without failure, where the handlers run beside the refresh thread
FewSampleResults ==
    {<<Ok("host"), Ok("up 1 day"), Ok(<<2, 4>>)>>}

\* (the hostname taken from the result without unwrap_or)
SysinfoExt_new_raw(sys, h, u, b) ==
    [ver |-> sys.ver,
     disk_utf8 |-> sys.disk_utf8,
     hostname |-> h.val,
     uptime |-> unwrap_or(u, "Unknown"),
     bandwith |-> unwrap_or(b, <<0, 0>>)]

SysinfoExt_new(sys, h, u, b) ==
    [ver |-> sys.ver,
     disk_utf8 |-> sys.disk_utf8,
     hostname |-> unwrap_or(h, "Unknown"),
     uptime |-> unwrap_or(u, "Unknown"),
     bandwith |-> unwrap_or(b, <<0, 0>>)]

NoSysinfo == SysinfoExt_new([ver |-> 0, disk_utf8 |-> TRUE], Err("io"), Err("io"), Err(<<0, 0>>))

\* Ser<Disk>::serialize: to_str().unwrap() panics on a name that is not UTF-8.
SerDiskPanics(s) == ~s.disk_utf8

\* serde_json::to_string(&sysinfo): "Panic", or a Result.
to_string(s, ser_err) ==
    IF SerDiskPanics(s) THEN [tag |-> "Panic", text |-> EmptyArrayText]
    ELSE IF ser_err THEN [tag |-> "Err", text |-> EmptyArrayText]
    ELSE [tag |-> "Ok", text |-> ObjectText(s)]

\* .unwrap_or_else(|_| "[]".to_string())
unwrap_or_else_empty(r) == IF r.tag = "Ok" THEN r.text ELSE EmptyArrayText

----------------------------------------------------------------------------
(* get_bandwith_usage (linux).  The counters are u64; the model keeps the *)
(* arithmetic of a fixed width and scales the width down to U64Bits.      *)

U64Bits == 4
U64Modulus == 2^U64Bits

\* readings of an rx_bytes / tx_bytes file: the ends and the middle of the range
CounterValues == {0, 1, U64Modulus \div 2 - 1, U64Modulus \div 2, U64Modulus - 1}

\* where a `?` of get_bandwith_usage returns the error: nowhere, at
\* /proc/net/route, at the readings before or after the sleep
ReadFailures == {"none", "route", "old", "new"}

\* u64 `a - b` and `a * b`: a build with overflow checks panics where the
\* result leaves the range, a build without them wraps
u64_sub(checks, a, b) ==
    IF a >= b THEN [tag |-> "Ok", val |-> a - b]
    ELSE IF checks THEN [tag |-> "Panic", val |-> 0]
    ELSE [tag |-> "Ok", val |-> (a - b + U64Modulus) % U64Modulus]

u64_mul(checks, a, b) ==
    IF a * b < U64Modulus THEN [tag |-> "Ok", val |-> a * b]
    ELSE IF checks THEN [tag |-> "Panic", val |-> 0]
    ELSE [tag |-> "Ok", val |-> (a * b) % U64Modulus]

\* (new - old) * 2
rate(checks, new, old) ==
    LET d == u64_sub(checks, new, old) IN
    IF d.tag = "Panic" THEN d ELSE u64_mul(checks, d.val, 2)

\* get_bandwith_usage(): "Err", "Panic", or "Ok" with (rx, tx)
get_bandwith_usage(checks, n) ==
    IF n.fail # "none" THEN [tag |-> "Err", val |-> <<0, 0>>]
    ELSE LET rx == rate(checks, n.new_rx, n.old_rx)
             tx == rate(checks, n.new_tx, n.old_tx) IN
         IF rx.tag = "Panic" \/ tx.tag = "Panic"
         THEN [tag |-> "Panic", val |-> <<0, 0>>]
         ELSE [tag |-> "Ok", val |-> <<rx.val, tx.val>>]

----------------------------------------------------------------------------
(* DataHandler *)

duration_since(t, earlier) == IF earlier <= t THEN Ok(t - earlier) ELSE Err(earlier - t)

\* (the comparison with <= for <)
RecentlyConnectedInclusive(d) == as_secs(d) <= REFRESH_DELAY

\* can_update_system_info's comparison, given the elapsed Duration
RecentlyConnected(d) == as_secs(d) < REFRESH_DELAY

----------------------------------------------------------------------------
(* The initial state: DataHandler as constructed in start_web_server *)

\* History of one iteration of the loop: whether the iteration before it was
\* idle, the refresh_all() calls and the writes of json_output it has made, the
\* provider version it published and the queries of SysinfoExt::new that failed.
NewIter(slp) ==
    [resumed |-> slp, calls |-> 0, pubs |-> 0, pubver |-> 0, failed |-> {}]

NoRequest == [method |-> "", path |-> "", accept |-> [present |-> FALSE, value |-> <<>>],
              payload |-> <<>>, typ |-> "", fail |-> "none"]
NoResponse == [kind |-> "none", status |-> 0, content_type |-> "",
               content_encoding |-> "", body |-> <<>>, text |-> ""]

InitShared ==
    /\ now = 0
    /\ system = [ver |-> 0, disk_utf8 |-> TRUE]
    /\ last_connection = 0
    /\ last_poisoned = FALSE
    /\ last_holder = NoThread
    /\ json_output = InitialJson
    /\ json_writer = FALSE
    /\ json_readers = {}
    /\ json_poisoned = FALSE
    /\ sched_pc = "loop"
    /\ sched_t = 0
    /\ sleeping = FALSE
    /\ sysinfo = NoSysinfo
    /\ iter = NewIter(FALSE)
    /\ published = EmptyArrayText
    /\ hpc = [w \in Workers |-> "idle"]
    /\ ht = [w \in Workers |-> 0]
    /\ hbody = [w \in Workers |-> <<>>]

\* get_bandwith_usage not called yet
NoReadings == [fail |-> "none", old_rx |-> 0, old_tx |-> 0, new_rx |-> 0, new_tx |-> 0]
NoBandwith == [tag |-> "none", val |-> <<0, 0>>]

InitNoNet ==
    /\ overflow_checks = FALSE
    /\ net = NoReadings
    /\ bandwith = NoBandwith

Init ==
    /\ gzip \in BOOLEAN
    /\ InitShared
    /\ InitNoNet
    /\ req = NoRequest
    /\ resp = NoResponse

----------------------------------------------------------------------------
(* The clock *)

Tick ==
    /\ \E t \in Instants : t > now /\ now' = t
    /\ UNCHANGED <<gzip, netVars, sharedVars, schedVars, handlerVars, httpVars>>

----------------------------------------------------------------------------
(* The refresh thread: the closure spawned in start_web_server *)

\* (the second refresh_all() left out)
RefreshAgainNever(slp) == FALSE

\* `if sleeping` of the active branch: whether refresh_all() is called again
RefreshAgain(slp) == slp

\* loop top, can_update_system_info: SystemTime::now() is evaluated first
SchedReadClock ==
    /\ sched_pc = "loop"
    /\ sched_t' = now
    /\ sched_pc' = "lock_last"
    /\ UNCHANGED <<gzip, netVars, now, sharedVars, sleeping, sysinfo, iter, published,
                   handlerVars, httpVars>>

\* (a MutexGuard that is never dropped)
drop_guard_leaked(holder) == holder

\* a MutexGuard goes out of scope: the Mutex is free again
drop_guard(holder) == NoThread

\* can_update_system_info: self.last_connection.lock().unwrap()
SchedLockLast ==
    /\ sched_pc = "lock_last"
    /\ last_holder = NoThread
    /\ IF last_poisoned
       THEN /\ sched_pc' = "panicked"
            /\ UNCHANGED last_holder
       ELSE /\ sched_pc' = "check"
            /\ last_holder' = RefreshThread
    /\ UNCHANGED <<gzip, netVars, now, system, last_connection, last_poisoned, json_output,
                   json_writer, json_readers, json_poisoned, sched_t, sleeping,
                   sysinfo, iter, published, handlerVars, httpVars>>

\* can_update_system_info: duration_since(..).unwrap(), the comparison, the
\* guard dropped; then the branch of the loop.  The guard is alive when
\* unwrap() panics, which poisons the Mutex.
SchedCheck ==
    /\ sched_pc = "check"
    /\ LET d == duration_since(sched_t, last_connection) IN
         IF ~d.ok
         THEN /\ sched_pc' = "panicked"
              /\ last_poisoned' = TRUE
              /\ sched_t' = sched_t
         ELSE IF RecentlyConnected(d.val)
         THEN /\ sched_pc' = "refresh"
              /\ UNCHANGED <<last_poisoned, sched_t>>
         ELSE /\ sched_pc' = "idle_sleep"
              /\ sched_t' = now + IdleSleepMillis
              /\ UNCHANGED last_poisoned
    /\ last_holder' = drop_guard(last_holder)
    /\ UNCHANGED <<gzip, netVars, now, system, last_connection, json_output, json_writer,
                   json_readers, json_poisoned, sleeping, sysinfo, iter, published,
                   handlerVars, httpVars>>

\* system.refresh_all(): the next state of the provider, with the disks it finds
refresh_all(sys, utf8) == [ver |-> sys.ver + 1, disk_utf8 |-> utf8]

\* system.write().unwrap(); system.refresh_all();
\* if sleeping { system.refresh_all(); sleeping = false; }
\* (only this thread ever touches `system`)
SchedRefresh ==
    /\ sched_pc = "refresh"
    /\ \E u1 \in BOOLEAN, u2 \in BOOLEAN :
         IF RefreshAgain(sleeping)
         THEN /\ system' = refresh_all(refresh_all(system, u1), u2)
              /\ iter' = [iter EXCEPT !.calls = @ + 2]
              /\ sleeping' = FALSE
         ELSE /\ u1 = u2
              /\ system' = refresh_all(system, u1)
              /\ iter' = [iter EXCEPT !.calls = @ + 1]
              /\ UNCHANGED sleeping
    /\ sched_pc' = "sysinfo"
    /\ UNCHANGED <<gzip, netVars, now, last_connection, last_poisoned, last_holder, json_output,
                   json_writer, json_readers, json_poisoned, sched_t, sysinfo, published,
                   handlerVars, httpVars>>

\* let sysinfo = SysinfoExt::new(&system)
SchedSysinfo(samples) ==
    /\ sched_pc = "sysinfo"
    /\ \E r \in samples :
         /\ sysinfo' = SysinfoExt_new(system, r[1], r[2], r[3])
         /\ iter' = [iter EXCEPT !.failed =
                        {f \in {"hostname", "uptime", "bandwith"} :
                            \/ f = "hostname" /\ ~r[1].ok
                            \/ f = "uptime" /\ ~r[2].ok
                            \/ f = "bandwith" /\ ~r[3].ok}]
    /\ sched_pc' = "lock_json"
    /\ UNCHANGED <<gzip, netVars, now, sharedVars, sched_t, sleeping, published, handlerVars, httpVars>>

\* let mut json_output = data_handler_clone.json_output.write().unwrap()
\* (granted when no reader and no writer holds the lock)
SchedLockJson ==
    /\ sched_pc = "lock_json"
    /\ ~json_writer
    /\ json_readers = {}
    /\ json_writer' = TRUE
    /\ sched_pc' = "clear"
    /\ UNCHANGED <<gzip, netVars, now, system, last_connection, last_poisoned, last_holder,
                   json_output, json_readers, json_poisoned, sched_t, sleeping,
                   sysinfo, iter, published, handlerVars, httpVars>>

\* json_output.clear()
SchedClear ==
    /\ sched_pc = "clear"
    /\ json_output' = clear(json_output)
    /\ sched_pc' = "serialize"
    /\ UNCHANGED <<gzip, netVars, now, system, last_connection, last_poisoned, last_holder,
                   json_writer, json_readers, json_poisoned, sched_t, sleeping,
                   sysinfo, iter, published, handlerVars, httpVars>>

\* (a write guard that is never dropped)
drop_write_guard_leaked(held) == held

\* the RwLockWriteGuard goes out of scope: the lock is free again
drop_write_guard(held) == FALSE

\* json_output.write_str(&serde_json::to_string(&sysinfo).unwrap_or_else(..)).unwrap();
\* the end of the block drops sysinfo and both write guards, and
\* thread::sleep(Duration::new(5, 0)) starts.  A panic in to_string unwinds with the
\* guards alive: the thread ends and the RwLock is poisoned.
SchedWrite ==
    /\ sched_pc = "serialize"
    /\ \E ser_err \in BOOLEAN :
         LET r == to_string(sysinfo, ser_err) IN
           IF r.tag = "Panic"
           THEN /\ sched_pc' = "panicked"
                /\ json_poisoned' = TRUE
                /\ UNCHANGED <<json_output, published, iter, sched_t>>
           ELSE /\ json_output' = write_str(json_output, unwrap_or_else_empty(r))
                /\ published' = unwrap_or_else_empty(r)
                /\ iter' = [iter EXCEPT !.pubs = @ + 1, !.pubver = sysinfo.ver]
                /\ sched_pc' = "active_sleep"
                /\ sched_t' = now + MillisOfSecs(ActiveSleepSecs)
                /\ UNCHANGED json_poisoned
    /\ json_writer' = drop_write_guard(json_writer)
    /\ sysinfo' = NoSysinfo
    /\ UNCHANGED <<gzip, netVars, now, system, last_connection, last_poisoned, last_holder,
                   json_readers, sleeping, handlerVars, httpVars>>

\* thread::sleep(Duration::new(5, 0)) returns: the next iteration starts
SchedWakeActive ==
    /\ sched_pc = "active_sleep"
    /\ now >= sched_t
    /\ sched_pc' = "loop"
    /\ iter' = NewIter(FALSE)
    /\ UNCHANGED <<gzip, netVars, now, sharedVars, sched_t, sleeping, sysinfo, published,
                   handlerVars, httpVars>>

\* thread::sleep(Duration::from_millis(500)) returns; sleeping = true: the next
\* iteration starts
SchedWakeIdle ==
    /\ sched_pc = "idle_sleep"
    /\ now >= sched_t
    /\ sleeping' = TRUE
    /\ sched_pc' = "loop"
    /\ iter' = NewIter(TRUE)
    /\ UNCHANGED <<gzip, netVars, now, sharedVars, sched_t, sysinfo, published,
                   handlerVars, httpVars>>

Scheduler(samples) ==
    \/ SchedReadClock
    \/ SchedLockLast
    \/ SchedCheck
    \/ SchedRefresh
    \/ SchedSysinfo(samples)
    \/ SchedLockJson
    \/ SchedClear
    \/ SchedWrite
    \/ SchedWakeActive
    \/ SchedWakeIdle

----------------------------------------------------------------------------
(* Strings of the Accept-Encoding header, as sequences of characters *)

LowerChar(c) ==
    CASE c = "G" -> "g"
      [] c = "Z" -> "z"
      [] c = "I" -> "i"
      [] c = "P" -> "p"
      [] c = "B" -> "b"
      [] c = "R" -> "r"
      [] OTHER -> c

to_lowercase(s) == [i \in 1..Len(s) |-> LowerChar(s[i])]

contains(s, pat) ==
    \E i \in 1..(Len(s) - Len(pat) + 1) : SubSeq(s, i, i + Len(pat) - 1) = pat

GzipToken == <<"g", "z", "i", "p">>
StarToken == <<"*">>

\* (the match without to_lowercase())
WantsGzipCaseSensitive(encoding) ==
    contains(encoding, GzipToken) \/ contains(encoding, StarToken)

\* `s.contains("gzip") || s.contains("*")` of the lowercased header
WantsGzip(encoding) ==
    LET s == to_lowercase(encoding) IN contains(s, GzipToken) \/ contains(s, StarToken)

----------------------------------------------------------------------------
(* flate2's GzEncoder, as far as the macros use it: a header, a run-length *)
(* coding of the payload and the payload's length as trailer.              *)

RECURSIVE RunLen(_, _)
RunLen(p, b) == IF p # <<>> /\ p[1] = b THEN 1 + RunLen(Tail(p), b) ELSE 0

RECURSIVE deflate(_)
deflate(p) ==
    IF p = <<>> THEN <<>>
    ELSE LET n == RunLen(p, p[1]) IN
         <<p[1], n>> \o deflate(SubSeq(p, n + 1, Len(p)))

RECURSIVE inflate(_)
inflate(d) ==
    IF Len(d) < 2 THEN <<>>
    ELSE [i \in 1..d[2] |-> d[1]] \o inflate(SubSeq(d, 3, Len(d)))

GzHeader == <<31, 139>>

\* GzEncoder::new(Vec::new(), Compression::fast()); write_all; finish
gz_write_all(content, fail) == IF fail = "write_all" THEN Err(<<>>) ELSE Ok(content)
gz_finish(content, fail) ==
    IF fail = "finish" THEN Err(<<>>)
    ELSE Ok(GzHeader \o deflate(content) \o <<Len(content)>>)

\* what a client's gzip decoder makes of a body
gunzip(body) ==
    IF Len(body) >= Len(GzHeader) + 1 /\ SubSeq(body, 1, Len(GzHeader)) = GzHeader
    THEN LET d == SubSeq(body, Len(GzHeader) + 1, Len(body) - 1)
             p == inflate(d) IN
         IF Len(d) % 2 = 0 /\ Len(p) = body[Len(body)] THEN Ok(p) ELSE Err(<<>>)
    ELSE Err(<<>>)

----------------------------------------------------------------------------
(* The response macros *)

\* (a builder whose content-encoding header is lost)
ResponseNoEncoding(status, typ, encoding, body) ==
    [kind |-> "response", status |-> status, content_type |-> typ,
     content_encoding |-> "", body |-> body, text |-> ""]

\* Response::builder().header("content-type", ..)[.header("content-encoding", ..)].body(..)
Response(status, typ, encoding, body) ==
    [kind |-> "response", status |-> status, content_type |-> typ,
     content_encoding |-> encoding, body |-> body, text |-> ""]

Rejection(status) ==
    [kind |-> "rejection", status |-> status, content_type |-> "",
     content_encoding |-> "", body |-> <<>>, text |-> ""]

\* (the encoder's error passed on as a rejection)
return_gzip_err_reject(content, typ) == Rejection(500)

\* return_gzip_err!
return_gzip_err(content, typ) == Response(200, typ, "", content)

\* warp::header::<String>("accept-encoding") rejects a request without the header
MissingHeader(accept) == ~accept.present

\* return_gzip_or_not!, #[cfg(feature = "gzip")]
return_gzip_or_not_gzip(accept, content, typ, fail) ==
    IF MissingHeader(accept) THEN Rejection(400)
    ELSE IF WantsGzip(accept.value)
    THEN IF ~gz_write_all(content, fail).ok THEN return_gzip_err(content, typ)
         ELSE LET buffer == gz_finish(content, fail) IN
              IF buffer.ok THEN Response(200, typ, "gzip", buffer.val)
              ELSE return_gzip_err(content, typ)
    ELSE Response(200, typ, "", content)

\* return_gzip_or_not!, #[cfg(not(feature = "gzip"))]
return_gzip_or_not_plain(content, typ) == Response(200, typ, "", content)

return_gzip_or_not(feature, accept, content, typ, fail) ==
    IF feature THEN return_gzip_or_not_gzip(accept, content, typ, fail)
    ELSE return_gzip_or_not_plain(content, typ)

----------------------------------------------------------------------------
(* Routing *)

FAVICON == <<0, 0, 1, 0>>
INDEX_HTML == <<1, 0, 1>>

\* customize_error, and warp's own reply for a rejection it passes on
customize_error(rej) ==
    IF rej.status = 404
    THEN [Response(404, "", "", <<>>) EXCEPT !.text = "you get a 404, and *you* get a 404..."]
    ELSE IF rej.status = 500
    THEN [Response(500, "", "", <<>>) EXCEPT !.text = ":fire: this is fine"]
    ELSE rej

\* The paths mounted in `routes`: index (favicon.ico); `.or(update).or(index2)`
\* is commented out.
Mounted == {"favicon.ico"}

\* let routes = warp::get2().and(index).recover(customize_error): the handler
\* closure a request reaches, or "" when it is rejected
RouteStatus(method, path) ==
    IF method # "GET" THEN 405
    ELSE IF path \in Mounted THEN 200
    ELSE 404

AcceptNone == [present |-> FALSE, value |-> <<>>]
Accept(v) == [present |-> TRUE, value |-> v]
EncoderFailures == {"none", "write_all", "finish"}
HttpRequest(m, p, a, f) ==
    [method |-> m, path |-> p, accept |-> a, payload |-> <<>>, typ |-> "", fail |-> f]

\* the requests sent to the server
Requests ==
    {HttpRequest("GET", "favicon.ico", AcceptNone, "none"),
     HttpRequest("GET", "favicon.ico", Accept(<<"b", "r">>), "none"),
     HttpRequest("GET", "favicon.ico", Accept(GzipToken), "none"),
     HttpRequest("GET", "favicon.ico", Accept(GzipToken), "write_all"),
     HttpRequest("GET", "favicon.ico", Accept(GzipToken), "finish"),
     HttpRequest("GET", "", Accept(GzipToken), "none"),
     HttpRequest("GET", "sysinfo.json", Accept(GzipToken), "none"),
     HttpRequest("GET", "sysinfo.json", Accept(<<"b", "r">>), "none"),
     HttpRequest("GET", "nope", Accept(GzipToken), "none"),
     HttpRequest("POST", "favicon.ico", Accept(GzipToken), "none")}

\* One HTTP request, answered: routing, the handler closure, recover.
\* The `update` closure: update_last_connection(), then the clone of json_output.
Request ==
    /\ \E r \in Requests :
         LET st == RouteStatus(r.method, r.path) IN
         /\ req' = r
         /\ IF st # 200
            THEN /\ resp' = customize_error(Rejection(st))
                 /\ UNCHANGED last_connection
            ELSE IF r.path = "favicon.ico"
            THEN /\ resp' = customize_error(
                     return_gzip_or_not(gzip, r.accept, FAVICON, "image/x-icon", r.fail))
                 /\ UNCHANGED last_connection
            ELSE IF r.path = ""
            THEN /\ resp' = customize_error(
                     return_gzip_or_not(gzip, r.accept, INDEX_HTML, "text/html", r.fail))
                 /\ UNCHANGED last_connection
            ELSE /\ ~json_writer
                 /\ last_holder = NoThread
                 /\ ~last_poisoned /\ ~json_poisoned
                 /\ last_connection' = now
                 /\ resp' = customize_error(
                     return_gzip_or_not(gzip, r.accept, json_output, "application/json", r.fail))
    /\ UNCHANGED <<gzip, netVars, now, system, last_poisoned, last_holder, json_output,
                   json_writer, json_readers, json_poisoned, schedVars, handlerVars>>

----------------------------------------------------------------------------
(* The handler closures, run by worker threads *)

\* (a reader that is granted the lock while the writer holds it)
JsonReadableAlways == TRUE

\* RwLock::read() is granted when no writer holds the lock
JsonReadable == ~json_writer

\* update: update_last_connection() evaluates SystemTime::now() (the assigned
\* value) before it locks last_connection (the assignee)
HTouchClock(w) ==
    /\ hpc[w] = "idle"
    /\ ht' = [ht EXCEPT ![w] = now]
    /\ hpc' = [hpc EXCEPT ![w] = "lock"]
    /\ UNCHANGED <<gzip, netVars, now, sharedVars, schedVars, hbody, httpVars>>

\* update_last_connection: self.last_connection.lock().unwrap()
HTouchLock(w) ==
    /\ hpc[w] = "lock"
    /\ last_holder = NoThread
    /\ IF last_poisoned
       THEN /\ hpc' = [hpc EXCEPT ![w] = "panicked"]
            /\ ht' = [ht EXCEPT ![w] = 0]
            /\ UNCHANGED last_holder
       ELSE /\ last_holder' = w
            /\ hpc' = [hpc EXCEPT ![w] = "store"]
            /\ UNCHANGED ht
    /\ UNCHANGED <<gzip, netVars, now, system, last_connection, last_poisoned, json_output,
                   json_writer, json_readers, json_poisoned, schedVars, hbody, httpVars>>

\* *<the guard> = <the value read>; the guard is dropped with the statement
HTouchStore(w) ==
    /\ hpc[w] = "store"
    /\ last_connection' = ht[w]
    /\ last_holder' = drop_guard(last_holder)
    /\ hpc' = [hpc EXCEPT ![w] = "rlock"]
    /\ ht' = [ht EXCEPT ![w] = 0]
    /\ UNCHANGED <<gzip, netVars, now, system, last_poisoned, json_output, json_writer,
                   json_readers, json_poisoned, schedVars, hbody, httpVars>>

\* data_handler.json_output.read().unwrap()
HReadLock(w) ==
    /\ hpc[w] = "rlock"
    /\ JsonReadable
    /\ IF json_poisoned
       THEN /\ hpc' = [hpc EXCEPT ![w] = "panicked"]
            /\ UNCHANGED json_readers
       ELSE /\ json_readers' = json_readers \cup {w}
            /\ hpc' = [hpc EXCEPT ![w] = "read"]
    /\ UNCHANGED <<gzip, netVars, now, system, last_connection, last_poisoned, last_holder,
                   json_output, json_writer, json_poisoned, schedVars, ht, hbody,
                   httpVars>>

\* (a read guard that is never dropped)
drop_read_guard_leaked(readers, w) == readers

\* the RwLockReadGuard of worker w goes out of scope
drop_read_guard(readers, w) == readers \ {w}

\* .clone(); the read guard is dropped
HRead(w) ==
    /\ hpc[w] = "read"
    /\ hbody' = [hbody EXCEPT ![w] = json_output]
    /\ json_readers' = drop_read_guard(json_readers, w)
    /\ hpc' = [hpc EXCEPT ![w] = "reply"]
    /\ UNCHANGED <<gzip, netVars, now, system, last_connection, last_poisoned, last_holder,
                   json_output, json_writer, json_poisoned, schedVars, ht, httpVars>>

\* the closure returns its response
HReply(w) ==
    /\ hpc[w] = "reply"
    /\ hpc' = [hpc EXCEPT ![w] = "idle"]
    /\ hbody' = [hbody EXCEPT ![w] = <<>>]
    /\ UNCHANGED <<gzip, netVars, now, sharedVars, schedVars, ht, httpVars>>

\* the Accept-Encoding headers of the requests for /sysinfo.json
MetricsEncodings == {Accept(GzipToken), Accept(<<"b", "r">>)}

\* update, with its response: return_gzip_or_not!(<the clone>, "application/json")
\* for the Accept-Encoding header of the request
HRespond(w) ==
    /\ hpc[w] = "reply"
    /\ \E a \in MetricsEncodings :
         /\ req' = HttpRequest("GET", "sysinfo.json", a, "none")
         /\ resp' = customize_error(
                return_gzip_or_not(gzip, a, hbody[w], "application/json", "none"))
    /\ hpc' = [hpc EXCEPT ![w] = "idle"]
    /\ hbody' = [hbody EXCEPT ![w] = <<>>]
    /\ UNCHANGED <<gzip, netVars, now, sharedVars, schedVars, ht>>

\* index (favicon.ico) and index2 (""): return_gzip_or_not! of a constant
HStatic(w) ==
    /\ hpc[w] = "idle"
    /\ \E r \in {q \in Requests : q.method = "GET" /\ q.path \in {"favicon.ico", ""}} :
         /\ req' = r
         /\ resp' = customize_error(
                IF r.path = "favicon.ico"
                THEN return_gzip_or_not(gzip, r.accept, FAVICON, "image/x-icon", r.fail)
                ELSE return_gzip_or_not(gzip, r.accept, INDEX_HTML, "text/html", r.fail))
    /\ UNCHANGED <<gzip, netVars, now, sharedVars, schedVars, handlerVars>>

Handler(w) ==
    \/ HTouchClock(w)
    \/ HTouchLock(w)
    \/ HTouchStore(w)
    \/ HReadLock(w)
    \/ HRead(w)
    \/ HReply(w)

----------------------------------------------------------------------------
(* The program as built *)

Next ==
    \/ Tick
    \/ Scheduler(SampleResults)
    \/ Request

Spec == Init /\ [][Next]_vars

(* The refresh thread with the handler closures running concurrently *)

InitHandlers ==
    /\ gzip = TRUE
    /\ InitShared
    /\ InitNoNet
    /\ req = NoRequest
    /\ resp = NoResponse

NextHandlers ==
    \/ Tick
    \/ Scheduler(FewSampleResults)
    \/ \E w \in Workers : Handler(w)

SpecHandlers == InitHandlers /\ [][NextHandlers]_vars

(* The refresh thread and one worker thread that runs the three handler *)
(* closures and returns their responses *)

Server == "w1"

InitClosures ==
    /\ gzip = TRUE
    /\ InitShared
    /\ InitNoNet
    /\ req = NoRequest
    /\ resp = NoResponse

NextClosures ==
    \/ Tick
    \/ Scheduler(FewSampleResults)
    \/ HTouchClock(Server)
    \/ HTouchLock(Server)
    \/ HTouchStore(Server)
    \/ HReadLock(Server)
    \/ HRead(Server)
    \/ HRespond(Server)
    \/ HStatic(Server)

SpecClosures == InitClosures /\ [][NextClosures]_vars

(* return_gzip_or_not! applied to bounded inputs *)

Bytes == {0, 1}
Payloads == UNION {[1..n -> Bytes] : n \in 0..MaxLen}
ContentTypes == {"text/html", "image/x-icon", "application/json"}
NegotiateEncodings ==
    {AcceptNone,
     Accept(<<>>),
     Accept(GzipToken),
     Accept(<<"G", "Z", "I", "P">>),
     Accept(<<"b", "r", ",", "G", "z", "I", "p">>),
     Accept(StarToken),
     Accept(<<"b", "r", ";", "*">>),
     Accept(<<"b", "r">>),
     Accept(<<"g", "z", "i">>),
     Accept(<<"z", "i", "p", "g">>)}

InitNegotiate ==
    /\ gzip \in BOOLEAN
    /\ InitShared
    /\ InitNoNet
    /\ \E a \in NegotiateEncodings, c \in Payloads, t \in ContentTypes, f \in EncoderFailures :
         req = [method |-> "GET", path |-> "", accept |-> a, payload |-> c,
                typ |-> t, fail |-> f]
    /\ resp = NoResponse

Negotiate ==
    /\ resp = NoResponse
    /\ resp' = return_gzip_or_not(gzip, req.accept, req.payload, req.typ, req.fail)
    /\ UNCHANGED <<gzip, netVars, now, sharedVars, schedVars, handlerVars, req>>

NextNegotiate == Negotiate

SpecNegotiate == InitNegotiate /\ [][NextNegotiate]_vars

(* get_bandwith_usage applied to bounded readings *)

InitBandwith ==
    /\ gzip = TRUE
    /\ InitShared
    /\ req = NoRequest
    /\ resp = NoResponse
    /\ overflow_checks \in BOOLEAN
    /\ net \in [fail : ReadFailures, old_rx : CounterValues, old_tx : CounterValues,
                 new_rx : CounterValues, new_tx : CounterValues]
    /\ bandwith = NoBandwith

BandwithUsage ==
    /\ bandwith = NoBandwith
    /\ bandwith' = get_bandwith_usage(overflow_checks, net)
    /\ UNCHANGED <<gzip, now, overflow_checks, net, sharedVars, schedVars,
                   handlerVars, httpVars>>

NextBandwith == BandwithUsage

SpecBandwith == InitBandwith /\ [][NextBandwith]_vars

----------------------------------------------------------------------------
(* Properties *)

\* C1: every read of json_output by a handler returns exactly one complete
\* text, the one of the last completed write of the refresh thread or the
\* initial "[]"; never the cleared String, never two texts.
C1_ReadsCompleteWrite ==
    [][\A w \in Workers :
         (hpc[w] = "read" /\ hpc'[w] = "reply") =>
             /\ hbody'[w] = <<published>>
             /\ IsCompleteText(hbody'[w])
             /\ published = EmptyArrayText \/ published.kind = "object"]_vars

\* a handler holds a complete snapshot it read while the refresh thread, write
\* lock held, has cleared the String for the next one
C1_Witness ==
    \E w \in Workers :
        /\ hpc[w] = "reply"
        /\ hbody[w] # <<>>
        /\ hbody[w][1].kind = "object"
        /\ sched_pc = "serialize"
        /\ json_output = <<>>

\* C2: when the refresh thread evaluates can_update_system_info with at least
\* REFRESH_DELAY seconds between its clock reading and last_connection, the
\* iteration takes the idle branch: no refresh_all(), json_output unchanged, a
\* sleep of 500 ms, then sleeping = true.
C2_IdleBranch ==
    /\ [][(/\ sched_pc = "check"
           /\ sched_pc' # "check"
           /\ ~last_poisoned
           /\ last_connection <= sched_t
           /\ sched_t - last_connection >= MillisOfSecs(REFRESH_DELAY))
          => (/\ sched_pc' = "idle_sleep"
              /\ sched_t' = now + IdleSleepMillis
              /\ system' = system
              /\ json_output' = json_output)]_vars
    /\ [][sched_pc = "idle_sleep"
          => (/\ system' = system
              /\ json_output' = json_output
              /\ iter.calls = 0
              /\ sched_pc' # "idle_sleep"
                    => (sched_pc' = "loop" /\ sleeping' /\ now >= sched_t))]_vars

\* an idle iteration has ended, with a snapshot of an earlier iteration cached
C2_Witness ==
    /\ sched_pc = "loop"
    /\ sleeping
    /\ iter.resumed
    /\ published.kind = "object"
    /\ json_output = <<published>>

\* C3: an active iteration that follows an idle one calls refresh_all() twice,
\* any other active iteration once; it writes json_output once, from the
\* provider state after its last refresh_all(), and has cleared `sleeping`
\* when it goes to sleep.
C3_ResumeTwice ==
    /\ sched_pc \in {"sysinfo", "lock_json", "clear", "serialize", "active_sleep"}
          => iter.calls = IF iter.resumed THEN 2 ELSE 1
    /\ sched_pc \in {"sysinfo", "lock_json", "clear", "serialize"} => iter.pubs = 0
    /\ sched_pc \in {"lock_json", "clear", "serialize"} => sysinfo.ver = system.ver
    /\ sched_pc = "active_sleep"
          => (iter.pubs = 1 /\ iter.pubver = system.ver /\ ~sleeping)

\* the iteration after an idle one has sampled twice and published once
C3_Witness ==
    /\ sched_pc = "active_sleep"
    /\ iter.resumed
    /\ iter.calls = 2
    /\ iter.pubs = 1
    /\ published.kind = "object"

\* C4: while the refresh thread idles the provider is not called; a GET of
\* /sysinfo.json that arrives then sets last_connection to its time, and the
\* iteration in which the thread then leaves the idle branch calls
\* refresh_all() exactly twice.
C4_RequestEndsIdle ==
    /\ [][sched_pc = "idle_sleep" => system' = system]_vars
    /\ [][(sched_pc = "idle_sleep" /\ req' # req
              /\ req'.method = "GET" /\ req'.path = "sysinfo.json")
          => last_connection' = now]_vars
    /\ [][(sched_pc = "refresh" /\ sched_pc' = "sysinfo" /\ iter.resumed)
          => system'.ver = system.ver + 2]_vars

C6_LastActivityMonotone == [][last_connection' >= last_connection]_vars

\* C7: the refresh thread never ends.
C7_SchedulerNeverEnds == sched_pc # "panicked"

\* C8 (gzip build, encoder working): a header that contains "gzip" in any
\* letter case, or "*", gets a body that gunzips to the payload; any other
\* header gets the payload itself.
C8_RoundTrip ==
    (gzip /\ resp.kind # "none" /\ req.accept.present /\ req.fail = "none")
    => IF contains(to_lowercase(req.accept.value), GzipToken)
          \/ contains(req.accept.value, StarToken)
       THEN resp.kind = "response" /\ gunzip(resp.body) = Ok(req.payload)
       ELSE resp.kind = "response" /\ resp.body = req.payload

\* a mixed-case GZIP header was answered with a compressed, non-empty payload
C8_Witness ==
    /\ gzip
    /\ resp.kind = "response"
    /\ req.fail = "none"
    /\ req.accept = Accept(<<"b", "r", ",", "G", "z", "I", "p">>)
    /\ Len(req.payload) >= 2
    /\ resp.body # req.payload
    /\ gunzip(resp.body) = Ok(req.payload)

\* C9: a request without Accept-Encoding is answered with the payload
\* unchanged, the caller's content-type and no content-encoding.
C9_NoHeaderPlain ==
    (resp.kind # "none" /\ ~req.accept.present)
    => /\ resp.kind = "response"
       /\ resp.status = 200
       /\ resp.body = req.payload
       /\ resp.content_type = req.typ
       /\ resp.content_encoding = ""

\* C10 (gzip build): when compression is asked for and write_all or finish
\* fails, the response is the successful one with the uncompressed payload.
C10_EncoderFailureFallsBack ==
    (gzip /\ resp.kind # "none" /\ req.accept.present /\ WantsGzip(req.accept.value)
          /\ req.fail # "none")
    => /\ resp.kind = "response"
       /\ resp.status = 200
       /\ resp.body = req.payload
       /\ resp.content_type = req.typ
       /\ resp.content_encoding = ""

\* finish() failed on a non-empty payload and the payload came back as it was
C10_Witness ==
    /\ gzip
    /\ resp.kind = "response"
    /\ req.fail = "finish"
    /\ req.accept = Accept(GzipToken)
    /\ Len(req.payload) >= 2
    /\ resp.body = req.payload

\* C11: every response of return_gzip_or_not! (compressed, compression not
\* asked for, or the fallback after an encoder failure) has status 200 and the
\* caller's content-type, and has content-encoding gzip exactly when its body
\* is the gzip form of the payload; otherwise it has no content-encoding and
\* its body is the payload.
C11_HeadersMatchBody ==
    resp.kind = "response"
    => /\ resp.status = 200
       /\ resp.content_type = req.typ
       /\ resp.content_encoding \in {"", "gzip"}
       /\ resp.content_encoding = "gzip"
             <=> resp.body = gz_finish(req.payload, "none").val
       /\ resp.content_encoding = "" <=> resp.body = req.payload

\* a JSON payload was compressed for a "*" header and carries both headers
C11_Witness ==
    /\ resp.kind = "response"
    /\ req.accept = Accept(StarToken)
    /\ req.typ = "application/json"
    /\ Len(req.payload) >= 2
    /\ resp.content_type = "application/json"
    /\ resp.content_encoding = "gzip"
    /\ resp.body = gz_finish(req.payload, "none").val

\* C12: from the start on, a GET of /sysinfo.json is answered with status 200,
\* content-type application/json and the text cached at that time (as it is,
\* or gzipped), which is one complete JSON text ("[]" before the first write).
C12_MetricsAlwaysServed ==
    [][(req' # req /\ req'.method = "GET" /\ req'.path = "sysinfo.json")
       => /\ resp'.kind = "response"
          /\ resp'.status = 200
          /\ resp'.content_type = "application/json"
          /\ IsCompleteText(json_output)
          /\ resp'.body = json_output \/ gunzip(resp'.body) = Ok(json_output)]_vars

\* C13: a GET of a path that is none of /, /favicon.ico and /sysinfo.json is
\* answered with 404 and a text body; a GET of one of the three is answered
\* by its handler, never with the 404 reply.
C13_RoutesAndNotFound ==
    req.method = "GET"
    => IF req.path \in {"", "favicon.ico", "sysinfo.json"}
       THEN resp.status # 404
       ELSE resp.status = 404 /\ resp.text # "" /\ resp.body = <<>>

\* C14 (gzip build): the body of a /sysinfo.json response to Accept-Encoding:
\* gzip gunzips to the body of the response to the next request, a
\* /sysinfo.json request that does not ask for gzip, whatever the refresh
\* thread does between and during the two.
C14_GzipMatchesNextPlain ==
    [][(/\ gzip
        /\ hpc[Server] = "reply" /\ hpc'[Server] = "idle"
        /\ req.path = "sysinfo.json" /\ req.accept = Accept(GzipToken)
        /\ req'.accept = Accept(<<"b", "r">>))
       => /\ resp.content_encoding = "gzip"
          /\ resp'.content_encoding = ""
          /\ gunzip(resp.body) = Ok(resp'.body)]_vars

\* C15: no thread holds a lock of json_output and the last_connection Mutex
\* at the same time, and no thread waits for a lock in vain: whenever a thread
\* is at a lock acquisition, either the lock is granted to it now or a holder
\* of that lock can take its next step, which needs no lock.
C15_NoNestedLocksNoDeadlock ==
    /\ ~(json_writer /\ last_holder = RefreshThread)
    /\ \A w \in Workers : ~(w \in json_readers /\ last_holder = w)
    /\ sched_pc = "lock_last"
          => \/ ENABLED SchedLockLast
             \/ \E v \in Workers : last_holder = v /\ ENABLED HTouchStore(v)
    /\ sched_pc = "lock_json"
          => \/ ENABLED SchedLockJson
             \/ \E v \in json_readers : ENABLED HRead(v)
    /\ \A w \in Workers :
          /\ hpc[w] = "lock"
                => \/ ENABLED HTouchLock(w)
                   \/ last_holder = RefreshThread /\ ENABLED SchedCheck
                   \/ \E v \in Workers \ {w} : last_holder = v /\ ENABLED HTouchStore(v)
          /\ hpc[w] = "rlock"
                => \/ ENABLED HReadLock(w)
                   \/ json_writer /\ (ENABLED SchedClear \/ ENABLED SchedWrite)

\* all three threads at their locks: the refresh thread holds the write lock
\* of json_output, one worker waits for the read lock and the other holds the
\* Mutex
C15_Witness ==
    /\ json_writer
    /\ sched_pc = "serialize"
    /\ \E w \in Workers, v \in Workers :
          /\ w # v
          /\ hpc[w] = "rlock"
          /\ ~ENABLED HReadLock(w)
          /\ last_holder = v
          /\ hpc[v] = "store"

\* C16: while the refresh thread samples (refresh_all(), once or twice, and
\* SysinfoExt::new) or sleeps, it holds neither a lock of json_output nor the
\* last_connection Mutex: a worker at json_output.read() is granted the lock,
\* and a worker at last_connection.lock() waits at most for another worker.
C16_SamplesAndSleepsUnlocked ==
    sched_pc \in {"refresh", "sysinfo", "lock_json", "active_sleep", "idle_sleep"}
    => /\ ~json_writer
       /\ last_holder # RefreshThread
       /\ \A w \in Workers :
             /\ hpc[w] = "rlock" => ENABLED HReadLock(w)
             /\ hpc[w] = "lock" => (ENABLED HTouchLock(w) \/ last_holder \in Workers \ {w})

\* between the two refresh_all() of a resume and SysinfoExt::new, one worker
\* holds the read lock of json_output and the other the Mutex
C16_Witness ==
    /\ sched_pc = "sysinfo"
    /\ iter.resumed
    /\ iter.calls = 2
    /\ \E w \in Workers, v \in Workers :
          /\ w \in json_readers
          /\ last_holder = v
          /\ hpc[v] = "store"

\* C17: a request that has set last_connection while the refresh thread was
\* idle does not read the snapshot cached before the idle iterations (the
\* thread still idle, or resuming and not yet at its write): the first
\* snapshot served after them is the one written by the iteration that calls
\* refresh_all() twice.
C17_ResumeServesFresh ==
    [][\A w \in Workers :
         (/\ hpc[w] = "read" /\ hpc'[w] = "reply"
          /\ published.kind = "object"
          /\ last_connection <= now
          /\ RecentlyConnected(now - last_connection)
          /\ sched_pc # "panicked")
         => ~(sched_pc = "idle_sleep" \/ (iter.resumed /\ iter.pubs = 0))]_vars

\* C18: when the refresh thread holds the Mutex in can_update_system_info,
\* its clock reading is not earlier than the last_connection it finds, so
\* duration_since returns Ok (a non-negative Duration) and unwrap() does not
\* panic.
C18_DurationDefined ==
    sched_pc = "check"
    => /\ sched_t >= last_connection
       /\ duration_since(sched_t, last_connection).ok

\* C19: whenever the refresh thread does not hold the write lock, json_output
\* is one complete text, never empty or partial: after a cycle whose
\* serialization failed it is "[]", the cycle has gone on to its sleep, and
\* the lock is not poisoned, so that requests can still read it.
C19_SerializationFailureLeavesFallback ==
    ~json_writer
    => /\ IsCompleteText(json_output)
       /\ json_output = <<published>>
       /\ ~json_poisoned
       /\ sched_pc \notin {"clear", "serialize"}

\* C20: no step of a handler closure changes json_output (or `system`, or
\* poisons a lock); the only change the update closure makes to the
\* DataHandler is the store of its clock reading into last_connection, made
\* before it has read json_output, and when it returns it holds no lock; the
\* index and favicon closures change nothing of it.
C20_HandlerFrame ==
    [][(hpc' # hpc \/ req' # req \/ resp' # resp)
       => /\ json_output' = json_output
          /\ published' = published
          /\ system' = system
          /\ json_writer' = json_writer
          /\ json_poisoned' = json_poisoned
          /\ last_poisoned' = last_poisoned
          /\ last_connection' # last_connection
                => /\ hpc[Server] = "store" /\ hpc'[Server] = "rlock"
                   /\ last_connection' = ht[Server]
                   /\ hbody[Server] = <<>>
          /\ (hpc[Server] = "read" /\ hpc'[Server] = "reply")
                => hbody'[Server] = json_output
          /\ hpc'[Server] = "idle"
                => (last_holder' # Server /\ Server \notin json_readers')
          /\ hpc' = hpc => UNCHANGED sharedVars]_vars

\* after a request for /sysinfo.json has set last_connection and a snapshot
\* has been written, the favicon closure has answered and the worker is free
C20_Witness ==
    /\ req.path = "favicon.ico"
    /\ resp.kind = "response"
    /\ resp.status = 200
    /\ hpc[Server] = "idle"
    /\ last_connection > 0
    /\ published.kind = "object"
    /\ json_output = <<published>>

\* C21: after the refresh thread has panicked with the write locks of `system`
\* and json_output held, json_output still holds the last completely written
\* text and a request for /sysinfo.json is granted the read lock and goes on
\* to read it: the panic does not reach the clients.
C21_PanicNotSurfaced ==
    /\ [][(/\ sched_pc = "panicked"
           /\ json_poisoned
           /\ hpc[Server] = "rlock"
           /\ hpc'[Server] # "rlock")
          => (/\ hpc'[Server] = "read"
              /\ json_output = <<published>>)]_vars
    /\ [][(json_poisoned /\ hpc[Server] = "read" /\ hpc'[Server] = "reply")
          => hbody'[Server] = <<published>>]_vars

\* C22: for all readings, new < old and large differences included,
\* get_bandwith_usage returns an error, or the rates 2 * (new_rx - old_rx) and
\* 2 * (new_tx - old_tx) as numbers within the range of the counters, with
\* neither the subtraction nor the multiplication leaving the range.
C22_RatesWithoutWrap ==
    bandwith # NoBandwith
    => \/ bandwith.tag = "Err"
       \/ /\ bandwith.tag = "Ok"
          /\ net.new_rx >= net.old_rx
          /\ net.new_tx >= net.old_tx
          /\ bandwith.val = <<2 * (net.new_rx - net.old_rx), 2 * (net.new_tx - net.old_tx)>>
          /\ bandwith.val[1] < U64Modulus
          /\ bandwith.val[2] < U64Modulus

====
